---- MODULE Spec2Model ----
(***************************************************************************)
(* Scouting dashboard (jdmarines/eval02): eda.py (feature engineering and  *)
(* the scouting report), app.py (the Streamlit script: cached load,        *)
(* sidebar filters, tabs) and agent.py (the LLM call).                     *)
(*                                                                         *)
(* A record set (DataFrame) is a sequence of rows, a row is a record whose *)
(* fields are the columns.  Column names with a blank are written with an  *)
(* underscore (Market_Value is 'Market Value').  Name is the player's      *)
(* ordinal in the uploaded file: names are unique within a file.           *)
(* Cost_per_Performance is a float in the code; here it is the exact       *)
(* fraction in lowest terms, which orders and compares as the floats do    *)
(* for the small integers of the model.  Strings of the code are written   *)
(* without their accents and emoji.                                        *)
(***************************************************************************)
EXTENDS Integers, Sequences, FiniteSets, TLC

VARIABLES
    uploaded_file,      \* app.py:51   the rows of the uploaded CSV
    loaded,             \* app.py:38   st.cache_data holds load_data's result
    df,                 \* app.py:60   the cached, featured base record set
    clubs,              \* app.py:65   sidebar multiselect "Club"
    nationalities,      \* app.py:66   sidebar multiselect "Nacionalidad Principal"
    positions,          \* app.py:67   sidebar multiselect "Posicion"
    age_range,          \* app.py:71   sidebar slider "Rango de Edad"
    df_filtered,        \* app.py:74   the filtered record set of the last run
    script_error,       \* app.py:88   the exception that ended the last run
    summary,            \* eda.py:76   text the last summary call on
                        \*             df_filtered returned (<<>>: none yet)
    previous_summary,   \* eda.py:76   text the call before it returned
    agent               \* agent.py:15 outcome of the last get_agent_response

vars == <<uploaded_file, loaded, df, clubs, nationalities, positions,
          age_range, df_filtered, script_error, summary, previous_summary,
          agent>>

(***************************************************************************)
(* Bounds of the model.                                                    *)
(***************************************************************************)
MaxRows == 2

(***************************************************************************)
(* Arithmetic helpers.                                                     *)
(***************************************************************************)
RECURSIVE GCD(_, _)
GCD(a, b) == IF b = 0 THEN a ELSE GCD(b, a % b)

\* a / b for integers a >= 0, b > 0, as the float quotient it denotes
Quotient(a, b) == LET g == GCD(a, b) IN [num |-> a \div g, den |-> b \div g]

Zero == [num |-> 0, den |-> 1]

Less(p, q) == p.num * q.den < q.num * p.den

\* format(a / b, '.0f'): the nearest integer, an exact half to the even one
Fixed0(a, b) ==
    LET q == a \div b
        r == a % b
    IN  IF 2 * r < b THEN q
        ELSE IF 2 * r > b THEN q + 1
        ELSE IF q % 2 = 0 THEN q ELSE q + 1

\* format(a / b, '.1f'), in tenths
Fixed1(a, b) == Fixed0(10 * a, b)

\* Series.sum() of a column of integers
RECURSIVE Sum(_)
Sum(col) == IF col = <<>> THEN 0 ELSE Head(col) + Sum(Tail(col))

(***************************************************************************)
(* eda.py: create_features                                                 *)
(***************************************************************************)
bins == <<0, 21, 29, 40>>

labels == <<"Joven Promesa (<=21)", "En su Prime (22-29)", "Veterano (30+)">>

NaN == "NaN"

\* pd.cut(x, bins=bins, labels=labels, right=True): (bins[i], bins[i+1]]
cut(x) ==
    IF \E i \in 1..Len(labels) : bins[i] < x /\ x <= bins[i + 1]
    THEN labels[CHOOSE i \in 1..Len(labels) : bins[i] < x /\ x <= bins[i + 1]]
    ELSE NaN

\* the division without its guard on a zero Performance
cost_unguarded(market_value, perf) ==
    IF perf > 0 THEN Quotient(market_value, perf)
    ELSE [num |-> market_value, den |-> 0]

\* the lambda of df_copy.apply(..., axis=1)
cost_per_performance(market_value, perf) ==
    IF perf > 0 THEN Quotient(market_value, perf) ELSE Zero

\* df_copy['Goals'] + df_copy['Assists'], row by row
performance(row) == row.Goals + row.Assists

feature_row(row) ==
    [Name |-> row.Name, Club |-> row.Club,
     Primary_Nationality |-> row.Primary_Nationality,
     Position |-> row.Position, Age |-> row.Age,
     Market_Value |-> row.Market_Value, Goals |-> row.Goals,
     Assists |-> row.Assists, Yellow_Cards |-> row.Yellow_Cards,
     Red_Cards |-> row.Red_Cards,
     Performance |-> performance(row),
     Cost_per_Performance |->
         cost_per_performance(row.Market_Value, performance(row)),
     Age_Group |-> cut(row.Age)]

create_features(rows) == [i \in 1..Len(rows) |-> feature_row(rows[i])]

(***************************************************************************)
(* eda.py: get_dynamic_eda_summary.  The text is the sequence of its       *)
(* lines; a line is its fixed wording (abridged) and the values the        *)
(* f-string interpolates into it, each already formatted.                  *)
(***************************************************************************)
Line(text, name, club, x, y) ==
    [text |-> text, name |-> name, club |-> club, x |-> x, y |-> y]

NoMatch ==
    <<Line("No hay jugadores que coincidan con los filtros seleccionados.",
           0, "", 0, 0)>>

\* sorted order of the club names (Series.mode() returns its values sorted)
ClubNames == <<"Ajax", "Benfica">>

Rank(club) == CHOOSE i \in 1..Len(ClubNames) : ClubNames[i] = club

\* Series.str.contains(pattern, na=False) on the position names of the model
Contains(position, pattern) ==
    CASE pattern = "Forward|Winger" ->
             position \in {"Centre-Forward", "Left Winger"}
      [] pattern = "Midfield" ->
             position \in {"Central Midfield"}
      [] pattern = "Centre-Back|Full-Back" ->
             position \in {"Centre-Back"}

\* df[col]
Column(d, col) == [i \in 1..Len(d) |-> d[i][col]]

\* Series.idxmax(): the first row that holds the maximum
idxmax(d, col) ==
    CHOOSE i \in 1..Len(d) :
        /\ \A j \in 1..Len(d) : d[j][col] <= d[i][col]
        /\ \A j \in 1..(i - 1) : d[j][col] < d[i][col]

\* Series.idxmin() of Cost_per_Performance: the first row that holds the minimum
idxmin_cost(d) ==
    CHOOSE i \in 1..Len(d) :
        /\ \A j \in 1..Len(d) :
               ~Less(d[j].Cost_per_Performance, d[i].Cost_per_Performance)
        /\ \A j \in 1..(i - 1) :
               Less(d[i].Cost_per_Performance, d[j].Cost_per_Performance)

\* df['Club'].mode().iloc[0]: the most frequent club, the first in sorted order
modal_club(d) ==
    LET count(c) == Cardinality({i \in 1..Len(d) : d[i].Club = c})
        present == {d[i].Club : i \in 1..Len(d)}
        modes == {c \in present : \A o \in present : count(o) <= count(c)}
    IN  CHOOSE c \in modes : \A o \in modes : Rank(c) <= Rank(o)

overview(d) ==
    <<Line("INFORME DE SCOUTING PARA {n} JUGADORES", 0, "", Len(d), 0),
      Line("Edad Promedio: {:.1f}", 0, "",
           Fixed1(Sum(Column(d, "Age")), Len(d)), 0),
      Line("Valor de Mercado Promedio: {:,.0f}", 0, "",
           Fixed0(Sum(Column(d, "Market_Value")), Len(d)), 0),
      Line("Club con mas Jugadores:", 0, modal_club(d), 0, 0)>>

\* "Mejor Delantero" and "Mejor Mediocampista": best Performance and its mean
best_performer(d, pattern, text) ==
    LET group == SelectSeq(d, LAMBDA r : Contains(r.Position, pattern))
    IN  IF group = <<>> THEN <<>>
        ELSE LET top == group[idxmax(group, "Performance")]
             IN  <<Line(text, top.Name, top.Club, top.Performance,
                        Fixed1(Sum(Column(group, "Performance")), Len(group)))>>

\* "Mejor Defensor (por Valor)"
best_defender(d) ==
    LET group == SelectSeq(d, LAMBDA r : Contains(r.Position, "Centre-Back|Full-Back"))
    IN  IF group = <<>> THEN <<>>
        ELSE LET top == group[idxmax(group, "Market_Value")]
             IN  <<Line("Mejor Defensor (por Valor):", top.Name, top.Club,
                        top.Market_Value, 0)>>

\* the ranking taken over every row, the sentinel rows included
most_efficient_unrestricted(d) ==
    IF d = <<>> THEN <<>>
    ELSE LET top == d[idxmin_cost(d)]
         IN  <<Line("Jugador mas Eficiente (Moneyball):", top.Name, top.Club,
                    Fixed0(top.Cost_per_Performance.num,
                           top.Cost_per_Performance.den), 0)>>

\* performers = df[df['Cost_per_Performance'] > 0], then idxmin
most_efficient(d) ==
    LET performers == SelectSeq(d, LAMBDA r : Less(Zero, r.Cost_per_Performance))
    IN  IF performers = <<>> THEN <<>>
        ELSE LET top == performers[idxmin_cost(performers)]
             IN  <<Line("Jugador mas Eficiente (Moneyball):", top.Name, top.Club,
                        Fixed0(top.Cost_per_Performance.num,
                               top.Cost_per_Performance.den), 0)>>

\* "Joven Promesa Destacada": df[df['Age'] <= 21]
top_young(d) ==
    LET young_players == SelectSeq(d, LAMBDA r : r.Age <= 21)
    IN  IF young_players = <<>> THEN <<>>
        ELSE LET top == young_players[idxmax(young_players, "Performance")]
             IN  <<Line("Joven Promesa Destacada:", top.Name, "", top.Age,
                        top.Performance)>>

\* "Veterano de Impacto Inmediato": df[df['Age'] >= 30]
top_veteran(d) ==
    LET veteran_players == SelectSeq(d, LAMBDA r : r.Age >= 30)
    IN  IF veteran_players = <<>> THEN <<>>
        ELSE LET top == veteran_players[idxmax(veteran_players, "Performance")]
             IN  <<Line("Veterano de Impacto Inmediato:", top.Name, "", top.Age,
                        top.Performance)>>

\* the cards added to what an earlier call stored
total_cards_accumulated(row) ==
    (IF "Total_Cards" \in DOMAIN row THEN row.Total_Cards ELSE 0)
    + row.Yellow_Cards + row.Red_Cards

\* the value line 128 stores for one row
total_cards(row) == row.Yellow_Cards + row.Red_Cards

\* df['Total Cards'] = ...: the column is added to, or replaced in, the
\* record set the caller passed
with_total_cards(d) ==
    [i \in 1..Len(d) |-> [Total_Cards |-> total_cards(d[i])] @@ d[i]]

\* "Riesgo Disciplinario", read from the column just stored
riskiest(d) ==
    IF d # <<>> /\ \E i \in 1..Len(d) : d[i].Total_Cards > 0
    THEN LET top == d[idxmax(d, "Total_Cards")]
         IN  <<Line("Riesgo Disciplinario:", top.Name, "", top.Total_Cards, 0)>>
    ELSE <<>>

\* the report without the early return on an empty record set
summary_text_unguarded(d) ==
    IF d = <<>>
    THEN <<Line("INFORME DE SCOUTING PARA {n} JUGADORES", 0, "", 0, 0),
           Line("Edad Promedio: nan", 0, "", 0, 0),
           Line("Valor de Mercado Promedio: nan", 0, "", 0, 0),
           Line("Analisis por Posicion:", 0, "", 0, 0),
           Line("Hallazgos Clave:", 0, "", 0, 0)>>
    ELSE overview(d)
         \o <<Line("Analisis por Posicion:", 0, "", 0, 0)>>
         \o best_performer(d, "Forward|Winger", "Mejor Delantero:")
         \o best_performer(d, "Midfield", "Mejor Mediocampista:")
         \o best_defender(d)
         \o <<Line("Hallazgos Clave:", 0, "", 0, 0)>>
         \o most_efficient(d)
         \o top_young(d)
         \o top_veteran(d)
         \o riskiest(with_total_cards(d))

\* the string get_dynamic_eda_summary(d) returns
summary_text(d) ==
    IF d = <<>> THEN NoMatch
    ELSE overview(d)
         \o <<Line("Analisis por Posicion:", 0, "", 0, 0)>>
         \o best_performer(d, "Forward|Winger", "Mejor Delantero:")
         \o best_performer(d, "Midfield", "Mejor Mediocampista:")
         \o best_defender(d)
         \o <<Line("Hallazgos Clave:", 0, "", 0, 0)>>
         \o most_efficient(d)
         \o top_young(d)
         \o top_veteran(d)
         \o riskiest(with_total_cards(d))

\* the record set the caller holds after get_dynamic_eda_summary(d) returned
summary_effect(d) == IF d = <<>> THEN d ELSE with_total_cards(d)

(***************************************************************************)
(* app.py: the sidebar filters (lines 74-81).                              *)
(***************************************************************************)
\* the club filter without the test for an empty selection
by_club_unguarded(d, selected) == SelectSeq(d, LAMBDA r : r.Club \in selected)

by_club(d, selected) ==
    IF selected # {} THEN SelectSeq(d, LAMBDA r : r.Club \in selected) ELSE d

by_nationality(d, selected) ==
    IF selected # {}
    THEN SelectSeq(d, LAMBDA r : r.Primary_Nationality \in selected) ELSE d

\* the position filter skipped when it would leave no player
by_position_lenient(d, selected) ==
    IF selected # {} /\ SelectSeq(d, LAMBDA r : r.Position \in selected) # <<>>
    THEN SelectSeq(d, LAMBDA r : r.Position \in selected) ELSE d

by_position(d, selected) ==
    IF selected # {} THEN SelectSeq(d, LAMBDA r : r.Position \in selected) ELSE d

\* Series.between(lo, hi), both ends included
by_age(d, range) ==
    SelectSeq(d, LAMBDA r : range[1] <= r.Age /\ r.Age <= range[2])

\* the filters applied to what the previous run left
filter_source_incremental(base, previous) ==
    IF loaded THEN previous ELSE base

\* df_filtered = df.copy(): the run starts from the cached base, whatever
\* the previous run left
filter_source(base, previous) == base

apply_filters(base, previous, c, n, p, a) ==
    by_age(by_position(by_nationality(by_club(filter_source(base, previous),
                                              c), n), p), a)

min_age(d) == CHOOSE x \in {d[i].Age : i \in 1..Len(d)} :
                  \A i \in 1..Len(d) : x <= d[i].Age

max_age(d) == CHOOSE x \in {d[i].Age : i \in 1..Len(d)} :
                  \A i \in 1..Len(d) : d[i].Age <= x

\* tab1, tab2, tab3, tab4 = st.tabs([...]): the first two labels have no
\* comma between them and are one string, so st.tabs returns three tabs
tab_labels == <<"Agente IAVision General", "Analisis de Rendimiento",
                "Analisis Financiero">>

tab_targets == <<"tab1", "tab2", "tab3", "tab4">>

unpack_error ==
    IF Len(tab_labels) # Len(tab_targets)
    THEN "ValueError: not enough values to unpack" ELSE ""

(***************************************************************************)
(* agent.py: get_agent_response.  fault is the step of the try block that  *)
(* raises in this call ("none": no step does), reason the text of the      *)
(* exception, completion the text the completion service answers with.     *)
(***************************************************************************)
ErrorPrefix == "Ocurrio un error al contactar al modelo de lenguaje: "

TrySteps == <<"ChatGroq", "from_template", "format", "completion">>

StepOf(fault) == CHOOSE i \in 1..Len(TrySteps) : TrySteps[i] = fault

\* whether the try block gets as far as step name
reaches(fault, name) == fault = "none" \/ StepOf(name) <= StepOf(fault)

\* the model built before the try block: its failure reaches the caller
get_agent_response_late_try(api_key, eda_summary, question, fault, reason, completion) ==
    [status |-> IF fault = "ChatGroq" THEN "raised" ELSE "returned",
     prefix |-> IF fault \in {"none", "ChatGroq"} THEN "" ELSE ErrorPrefix,
     text |-> IF fault = "none" THEN completion
              ELSE IF fault = "ChatGroq" THEN "" ELSE reason,
     fault |-> fault,
     reason |-> IF fault = "none" THEN "" ELSE reason,
     service_calls |-> IF reaches(fault, "completion") THEN 1 ELSE 0,
     groq_api_key |-> api_key,
     prompt |-> IF reaches(fault, "completion")
                THEN <<eda_summary, question>> ELSE <<>>]

get_agent_response(api_key, eda_summary, question, fault, reason, completion) ==
    [status |-> "returned",
     prefix |-> IF fault = "none" THEN "" ELSE ErrorPrefix,
     text |-> IF fault = "none" THEN completion ELSE reason,
     fault |-> fault,
     reason |-> IF fault = "none" THEN "" ELSE reason,
     service_calls |-> IF reaches(fault, "completion") THEN 1 ELSE 0,
     groq_api_key |-> IF reaches(fault, "ChatGroq") THEN api_key ELSE "",
     prompt |-> IF reaches(fault, "completion")
                THEN <<eda_summary, question>> ELSE <<>>]

NotCalled ==
    [status |-> "idle", prefix |-> "", text |-> "", fault |-> "none",
     reason |-> "", service_calls |-> 0, groq_api_key |-> "", prompt |-> <<>>]

(***************************************************************************)
(* Inputs of the model.                                                    *)
(***************************************************************************)
Player(club, nationality, position, age, value, goals, assists, yellow, red) ==
    [Club |-> club, Primary_Nationality |-> nationality, Position |-> position,
     Age |-> age, Market_Value |-> value, Goals |-> goals, Assists |-> assists,
     Yellow_Cards |-> yellow, Red_Cards |-> red]

\* the row of the file for player number name
Row(name, pl) ==
    [Name |-> name, Club |-> pl.Club,
     Primary_Nationality |-> pl.Primary_Nationality, Position |-> pl.Position,
     Age |-> pl.Age, Market_Value |-> pl.Market_Value, Goals |-> pl.Goals,
     Assists |-> pl.Assists, Yellow_Cards |-> pl.Yellow_Cards,
     Red_Cards |-> pl.Red_Cards]

\* ages around every bin edge, values and goal counts around zero, cards
FeaturePlayers ==
    {Player("Ajax", "NL", "Centre-Forward", a, 2, 1, 0, 0, 0) :
        a \in {0, 1, 21, 22, 29, 30, 40, 41}}
    \cup {Player("Ajax", "NL", "Central Midfield", 25, v, g, s, 0, 0) :
        v \in {0, 2, 3}, g \in {0, 1, 2}, s \in {0, 1}}
    \cup {Player(c, "PT", "Centre-Back", 31, 1, 0, 0, y, r) :
        c \in {"Ajax", "Benfica"}, y \in {0, 1}, r \in {0, 1}}
    \cup {Player("Benfica", "PT", "Goalkeeper", 33, 3, 0, 0, 1, 0)}

\* two values in each of the four filtered columns: the eight players in
\* which an even number of columns holds its second value, so that any
\* three columns occur in every combination
FilterPlayers ==
    {Player(c, n, p,
            IF (c = "Ajax") = ((n = "NL") = (p = "Centre-Forward"))
            THEN 21 ELSE 22,
            2, 1, 0, 0, 0) :
        c \in {"Ajax", "Benfica"}, n \in {"NL", "PT"},
        p \in {"Centre-Forward", "Central Midfield"}}

AgentPlayers ==
    {Player(c, "NL", "Centre-Forward", a, 2, 1, 0, 0, 0) :
        c \in {"Ajax", "Benfica"}, a \in {21, 22}}

ApiKeys == {"gsk_valid", "gsk_revoked"}

Questions == {"Quien es el mas eficiente?", "Que lesiones tiene?"}

Reasons == {"Connection error.", "Error code: 401"}

Completions == {"El jugador 1.", "No tengo suficiente informacion."}

Files(players) ==
    UNION {{[i \in 1..n |-> Row(i, f[i])] : f \in [1..n -> players]} :
              n \in 1..MaxRows}

InitWith(players) ==
    /\ uploaded_file \in Files(players)
    /\ loaded = FALSE
    /\ df = <<>>
    /\ clubs = {}
    /\ nationalities = {}
    /\ positions = {}
    /\ age_range = <<0, 0>>
    /\ df_filtered = <<>>
    /\ script_error = ""
    /\ summary = <<>>
    /\ previous_summary = <<>>
    /\ agent = NotCalled

(***************************************************************************)
(* app.py: one run of the script.  Streamlit runs it from the top when a   *)
(* file is uploaded and after every change of a widget.                    *)
(***************************************************************************)
\* load_data: st.cache_data hands out the stored result for the same file
load_data(file) == IF loaded THEN df ELSE create_features(file)

\* lines 58-93: the run ends at the unpacking of st.tabs, which raises in
\* every run (unpack_error), so the tab bodies of lines 95-161 never run.
\* df_filtered is a new record set: no summary of it exists yet.
run_script(c, n, p, a) ==
    /\ loaded' = TRUE
    /\ df' = load_data(uploaded_file)
    /\ clubs' = c
    /\ nationalities' = n
    /\ positions' = p
    /\ age_range' = a
    /\ df_filtered' = apply_filters(load_data(uploaded_file), df_filtered,
                                    c, n, p, a)
    /\ script_error' = unpack_error
    /\ summary' = <<>>
    /\ previous_summary' = <<>>
    /\ UNCHANGED <<uploaded_file, agent>>

Toggle(set, x) == IF x \in set THEN set \ {x} ELSE set \cup {x}

\* the run that follows the upload: every widget at its default
FirstRun ==
    /\ ~loaded
    /\ run_script({}, {}, {},
                  <<min_age(load_data(uploaded_file)),
                    max_age(load_data(uploaded_file))>>)

ToggleClub ==
    /\ loaded
    /\ \E c \in {df[i].Club : i \in 1..Len(df)} :
           run_script(Toggle(clubs, c), nationalities, positions, age_range)

ToggleNationality ==
    /\ loaded
    /\ \E n \in {df[i].Primary_Nationality : i \in 1..Len(df)} :
           run_script(clubs, Toggle(nationalities, n), positions, age_range)

TogglePosition ==
    /\ loaded
    /\ \E p \in {df[i].Position : i \in 1..Len(df)} :
           run_script(clubs, nationalities, Toggle(positions, p), age_range)

MoveSlider ==
    /\ loaded
    /\ \E lo \in min_age(df)..max_age(df), hi \in min_age(df)..max_age(df) :
           /\ lo <= hi
           /\ <<lo, hi>> # age_range
           /\ run_script(clubs, nationalities, positions, <<lo, hi>>)

\* a call get_dynamic_eda_summary(df_filtered) on the filtered record set
CallSummary ==
    /\ loaded
    /\ summary' = summary_text(df_filtered)
    /\ previous_summary' = summary
    /\ df_filtered' = summary_effect(df_filtered)
    /\ UNCHANGED <<uploaded_file, loaded, df, clubs, nationalities, positions,
                   age_range, script_error, agent>>

\* a call get_agent_response(api_key, summary, question)
CallAgent ==
    /\ summary # <<>>
    /\ \E k \in ApiKeys, q \in Questions, c \in Completions,
          f \in {"none"} \cup {TrySteps[i] : i \in 1..Len(TrySteps)},
          r \in Reasons :
           /\ k = "gsk_revoked" => f # "none"
           /\ agent' = get_agent_response(k, summary, q, f, r, c)
    /\ UNCHANGED <<uploaded_file, loaded, df, clubs, nationalities, positions,
                   age_range, df_filtered, script_error, summary,
                   previous_summary>>

NextFeatures == FirstRun \/ CallSummary

SpecFeatures == InitWith(FeaturePlayers) /\ [][NextFeatures]_vars

NextFilter ==
    \/ FirstRun
    \/ ToggleClub
    \/ ToggleNationality
    \/ TogglePosition
    \/ MoveSlider
    \/ CallSummary

SpecFilter == InitWith(FilterPlayers) /\ [][NextFilter]_vars

NextAgent == FirstRun \/ CallSummary \/ CallAgent

SpecAgent == InitWith(AgentPlayers) /\ [][NextAgent]_vars

(***************************************************************************)
(* The claims.                                                             *)
(***************************************************************************)
Rows(d) == {d[i] : i \in 1..Len(d)}

\* a record set without the column the summary attaches
Base(d) ==
    [i \in 1..Len(d) |->
        [col \in DOMAIN d[i] \ {"Total_Cards"} |-> d[i][col]]]

\* whether a row satisfies the current sidebar selections
Selected(r) ==
    /\ clubs = {} \/ r.Club \in clubs
    /\ nationalities = {} \/ r.Primary_Nationality \in nationalities
    /\ positions = {} \/ r.Position \in positions
    /\ age_range[1] <= r.Age /\ r.Age <= age_range[2]

\* the "most efficient" lines of a report
Efficient(text) ==
    {i \in 1..Len(text) : text[i].text = "Jugador mas Eficiente (Moneyball):"}

IsReport(text) ==
    text # <<>> /\ text[1].text = "INFORME DE SCOUTING PARA {n} JUGADORES"

\* C1: after create_features every row has Performance = Goals + Assists,
\* Cost_per_Performance = Market Value / Performance when Performance > 0
\* and exactly 0 (a defined number) when Performance = 0.
C1_Features ==
    loaded =>
        /\ Len(df) = Len(uploaded_file)
        /\ \A i \in 1..Len(df) :
               LET raw == uploaded_file[i]
                   cost == df[i].Cost_per_Performance
               IN  /\ df[i].Performance = raw.Goals + raw.Assists
                   /\ cost.den > 0
                   /\ df[i].Performance > 0 =>
                          cost.num * df[i].Performance
                              = raw.Market_Value * cost.den
                   /\ df[i].Performance = 0 => cost.num = 0

C1_Witness ==
    /\ loaded
    /\ \E i \in 1..Len(df) :
           /\ df[i].Performance = 0
           /\ df[i].Market_Value > 0
           /\ df[i].Cost_per_Performance = [num |-> 0, den |-> 1]
    /\ \E i \in 1..Len(df) :
           /\ df[i].Performance = 2
           /\ df[i].Cost_per_Performance = [num |-> 3, den |-> 2]

\* C2: the player the summary names as most efficient is never a row with
\* Performance = 0, and no such line is written when every row has
\* Performance = 0.
C2_EfficientHasPerformance ==
    IsReport(summary) =>
        /\ \A k \in Efficient(summary) :
               \A i \in 1..Len(df_filtered) :
                   df_filtered[i].Name = summary[k].name
                       => df_filtered[i].Performance > 0
        /\ (\A i \in 1..Len(df_filtered) : df_filtered[i].Performance = 0)
               => Efficient(summary) = {}

C2_Witness ==
    /\ IsReport(summary)
    /\ Efficient(summary) # {}
    /\ df_filtered[1].Performance = 0
    /\ df_filtered[1].Market_Value > 0
    /\ \A k \in Efficient(summary) : summary[k].name = 2

\* C3: the summary of an empty record set is the fixed sentinel string, a
\* non-empty text, whatever filter selection emptied the set.
C3_EmptySentinel ==
    (loaded /\ summary # <<>> /\ df_filtered = <<>>) =>
        /\ Len(summary) = 1
        /\ summary[1].text
               = "No hay jugadores que coincidan con los filtros seleccionados."
        /\ summary[1].text # ""

C3_Witness ==
    /\ loaded
    /\ df_filtered = <<>>
    /\ Len(df) = 2
    /\ clubs # {}
    /\ summary # <<>>
    /\ previous_summary # <<>>

\* C4: a second call on the same record set returns the text of the first,
\* although the first call attached the Total Cards column to the set.
C4_SameTextTwice ==
    previous_summary # <<>> => summary = previous_summary

C4_Witness ==
    /\ previous_summary # <<>>
    /\ IsReport(summary)
    /\ \A i \in 1..Len(df_filtered) : "Total_Cards" \in DOMAIN df_filtered[i]
    /\ \E i \in 1..Len(df_filtered) : df_filtered[i].Total_Cards = 2
    /\ \E k \in 1..Len(summary) :
           summary[k].text = "Riesgo Disciplinario:" /\ summary[k].x = 2

\* C5: with no club, nationality or position selected and the slider on
\* [min Age, max Age] the filtered set is the base set, row for row; and a
\* row is never removed by a dimension whose selection is empty.
C5_IdentityFilter ==
    loaded =>
        /\ (/\ clubs = {}
            /\ nationalities = {}
            /\ positions = {}
            /\ age_range = <<min_age(df), max_age(df)>>)
               => Base(df_filtered) = df
        /\ \A i \in 1..Len(df) :
               Selected(df[i]) => df[i] \in Rows(Base(df_filtered))

C5_Witness ==
    /\ loaded
    /\ clubs = {} /\ nationalities = {} /\ positions = {}
    /\ age_range = <<min_age(df), max_age(df)>>
    /\ Len(df) = 2
    /\ df[1].Club # df[2].Club
    /\ df[1].Age # df[2].Age
    /\ Base(df_filtered) = df
    /\ summary # <<>>

\* C6: get_agent_response returns a string and raises nothing; when a step
\* of it fails the string is the error text followed by the reason, and the
\* completion service is called at most once.
C6_AgentReturnsString ==
    agent.status # "idle" =>
        /\ agent.status = "returned"
        /\ agent.service_calls <= 1
        /\ agent.fault # "none" =>
               /\ agent.prefix
                      = "Ocurrio un error al contactar al modelo de lenguaje: "
               /\ agent.text = agent.reason
               /\ agent.reason \in Reasons
        /\ agent.fault = "none" =>
               /\ agent.prefix = ""
               /\ agent.text \in Completions
               /\ agent.service_calls = 1

C6_Witness ==
    /\ agent.status = "returned"
    /\ agent.fault = "ChatGroq"
    /\ agent.service_calls = 0
    /\ agent.groq_api_key = "gsk_revoked"
    /\ agent.text = "Error code: 401"

\* C7: every Age in [0,40] is labelled: Joven Promesa up to 21, En su Prime
\* from 22 to 29, Veterano from 30; an Age outside [0,40] has no label.
C7_AgeGroups ==
    loaded =>
        \A i \in 1..Len(df) :
            LET age == df[i].Age
            IN  df[i].Age_Group =
                    IF age < 0 \/ age > 40 THEN "NaN"
                    ELSE IF age <= 21 THEN "Joven Promesa (<=21)"
                    ELSE IF age <= 29 THEN "En su Prime (22-29)"
                    ELSE "Veterano (30+)"

\* C8: the filtered set is what the current selections alone leave of the
\* base set, whatever was selected before, and the base set is what
\* load_data produced, without a Total Cards column, after any filtering
\* and any summary.
C8_FilteredFromBase ==
    loaded =>
        /\ Base(df_filtered) = SelectSeq(df, Selected)
        /\ df = create_features(uploaded_file)
        /\ \A i \in 1..Len(df) : "Total_Cards" \notin DOMAIN df[i]

C8_Witness ==
    /\ loaded
    /\ Len(df) = 2
    /\ clubs = {}
    /\ positions # {}
    /\ age_range # <<min_age(df), max_age(df)>>
    /\ Len(df_filtered) = 1
    /\ "Total_Cards" \in DOMAIN df_filtered[1]
    /\ summary # <<>>

FilterSteps == {"club", "nationality", "position", "age"}

Step(name, d) ==
    CASE name = "club" -> by_club(d, clubs)
      [] name = "nationality" -> by_nationality(d, nationalities)
      [] name = "position" -> by_position(d, positions)
      [] name = "age" -> by_age(d, age_range)

InOrder(order, d) == Step(order[4], Step(order[3], Step(order[2], Step(order[1], d))))

Orders == {o \in [1..4 -> FilterSteps] : \A i, j \in 1..4 : i # j => o[i] # o[j]}

\* C9: the four predicates applied in any order leave the records the
\* dashboard shows; a selected value that occurs in no record of the set
\* it is applied to matches nothing, and a selection no record satisfies
\* leaves the empty set.
C9_OrderIndependent ==
    loaded =>
        /\ \A o \in Orders : InOrder(o, df) = Base(df_filtered)
        /\ \A p \in positions :
               (\A r \in Rows(by_age(df, age_range)) : r.Position # p)
                   => by_position(by_age(df, age_range), {p}) = <<>>
        /\ (\A r \in Rows(df) : ~Selected(r)) => df_filtered = <<>>

C9_Witness ==
    /\ loaded
    /\ clubs # {} /\ nationalities # {} /\ positions # {}
    /\ age_range # <<min_age(df), max_age(df)>>
    /\ by_club(df, clubs) # <<>>
    /\ by_position(df, positions) # <<>>
    /\ by_age(df, age_range) # <<>>
    /\ \E p \in positions : \A r \in Rows(by_age(df, age_range)) : r.Position # p
    /\ df_filtered = <<>>

\* C10: when some record has Performance > 0 the summary names as most
\* efficient the first record, in input order, whose Cost_per_Performance
\* is least among the records with Performance > 0, those with Market
\* Value 0 included.
C10_EfficientAmongPerformers ==
    (IsReport(summary) /\ \E i \in 1..Len(df_filtered) :
                              df_filtered[i].Performance > 0) =>
        LET performers == {i \in 1..Len(df_filtered) :
                               df_filtered[i].Performance > 0}
            cost(i) == df_filtered[i].Cost_per_Performance
            best == CHOOSE i \in performers :
                        /\ \A j \in performers : ~Less(cost(j), cost(i))
                        /\ \A j \in performers : j < i => Less(cost(i), cost(j))
        IN  /\ Cardinality(Efficient(summary)) = 1
            /\ \A k \in Efficient(summary) :
                   summary[k].name = df_filtered[best].Name

====
